---- MODULE Spec2Model ----
\* A model of filterItems, the loadout optimizer's per-bucket item filter:
\* the arguments of one call are the state, the call itself is one step.
EXTENDS Integers, Sequences, FiniteSets, TLC

\* Longest per-bucket item list drawn for a call.
MaxLen == 3

----------------------------------------------------------------------------
\* Values the call works on.

\* The five armor buckets, in the order the loop visits them.
LockableBucketHashes == <<"Helmet", "Gauntlets", "ChestArmor", "LegArmor", "ClassArmor">>

Buckets == {LockableBucketHashes[i] : i \in 1..Len(LockableBucketHashes)}

\* The plug category of the mods that target each bucket.
bucketHashToPlugCategoryHash ==
  [b \in Buckets |->
     CASE b = "Helmet" -> "EnhancementsV2Head"
       [] b = "Gauntlets" -> "EnhancementsV2Arms"
       [] b = "ChestArmor" -> "EnhancementsV2Chest"
       [] b = "LegArmor" -> "EnhancementsV2Legs"
       [] OTHER -> "EnhancementsV2ClassItem"]

\* lockedExoticHash value meaning "no exotic at all".
LOCKED_EXOTIC_NO_EXOTIC == "LOCKED_EXOTIC_NO_EXOTIC"

\* lockedExoticHash when no exotic is locked.
Undefined == "undefined"

\* The items argument when no items are loaded.
NoItems == [undefined |-> TRUE]

\* A DimItem: the fields the filter reads.
DimItem(id, hash, isExotic) == [id |-> id, hash |-> hash, isExotic |-> isExotic]

\* Two copies of one exotic, a legendary, and a second exotic.
X1 == DimItem("x1", "X", TRUE)
X2 == DimItem("x2", "X", TRUE)
L1 == DimItem("l1", "L", FALSE)
Y1 == DimItem("y1", "Y", TRUE)

AllItems == {X1, X2, L1, Y1}

\* A mod definition: the field the filter reads is plug.plugCategoryHash.
Mod(hash, category) == [hash |-> hash, plug |-> [plugCategoryHash |-> category]]

ModFor(bucket) == Mod(bucket, bucketHashToPlugCategoryHash[bucket])

GeneralMod == Mod("General", "EnhancementsV2General")

----------------------------------------------------------------------------
\* The arguments of the call, and its locals.

VARIABLES
  defs,                \* TRUE iff the manifest definitions are loaded
  items,               \* NoItems, or bucket -> sequence of items
  pinnedItems,         \* bucket -> item, for the buckets with a pin
  excludedItems,       \* bucket -> set of items, for the buckets with exclusions
  lockedMods,          \* sequence of mods
  lockedExoticHash,    \* Undefined, LOCKED_EXOTIC_NO_EXOTIC or an item hash
  searchFilter,        \* the items the search predicate accepts
  cannotTake,          \* ids of the items on which the mod assignment places no mod
  pc,                  \* "call" before the call, "return" after it
  filteredItems,       \* the result mapping
  firstPassFilteredItems,        \* per visited bucket, the local of that name
  excludedAndModsFilteredItems   \* per visited bucket, the local of that name

vars == <<defs, items, pinnedItems, excludedItems, lockedMods, lockedExoticHash,
          searchFilter, cannotTake, pc, filteredItems, firstPassFilteredItems,
          excludedAndModsFilteredItems>>

inputs == <<defs, items, pinnedItems, excludedItems, lockedMods, lockedExoticHash,
            searchFilter, cannotTake>>

\* The arguments as one record.
Args ==
  [defs |-> defs, items |-> items, pinnedItems |-> pinnedItems,
   excludedItems |-> excludedItems, lockedMods |-> lockedMods,
   lockedExoticHash |-> lockedExoticHash, searchFilter |-> searchFilter,
   cannotTake |-> cannotTake]

----------------------------------------------------------------------------
\* The function, step by step.  a is the argument record; array.filter(test)
\* is SelectSeq(array, test).

\* The result mapping as first built: every bucket to the empty list.
EmptyFilteredItems == [b \in Buckets |-> <<>>]

\* The early return tests the items alone.
UnavailableItemsOnly(a) == a.items = NoItems

\* !items || !defs
Unavailable(a) == a.items = NoItems \/ ~a.defs

\* items[bucket] is there
HasBucket(a, bucket) == a.items # NoItems /\ bucket \in DOMAIN a.items

\* _.groupBy(lockedMods, mod => mod.plug.plugCategoryHash)
LockedModMap(a) ==
  LET keys == {a.lockedMods[i].plug.plugCategoryHash : i \in 1..Len(a.lockedMods)}
  IN [k \in keys |->
        LET InGroup(mod) == mod.plug.plugCategoryHash = k
        IN SelectSeq(a.lockedMods, InGroup)]

\* Every locked mod is handed to every bucket.
LockedModsUngrouped(a, bucket) == a.lockedMods

\* lockedModMap[bucketHashToPlugCategoryHash[bucket]] || []
LockedModsForPlugCategoryHash(a, bucket) ==
  LET lockedModMap == LockedModMap(a)
      key == bucketHashToPlugCategoryHash[bucket]
  IN IF key \in DOMAIN lockedModMap THEN lockedModMap[key] ELSE <<>>

\* The mod assignment, for the call's energy assumptions and minimum item
\* energy: the mods it could not place on the item.
assignBucketSpecificMods(a, item, modsToAssign) ==
  [unassigned |-> IF item.id \in a.cannotTake THEN modsToAssign ELSE <<>>]

\* The copies of the locked exotic are collected last one first.
ExoticsReversed(a, bucket) ==
  LET IsLocked(item) == item.hash = a.lockedExoticHash
      copies == SelectSeq(a.items[bucket], IsLocked)
  IN [k \in 1..Len(copies) |-> copies[Len(copies) + 1 - k]]

\* items[bucket].filter(item => item.hash === lockedExoticHash)
Exotics(a, bucket) ==
  LET IsLocked(item) == item.hash = a.lockedExoticHash
  IN SelectSeq(a.items[bucket], IsLocked)

\* The locked exotic is preferred to the pin.
FirstPassExoticFirst(a, bucket) ==
  LET IsLocked(item) == item.hash = a.lockedExoticHash
      exotics == SelectSeq(a.items[bucket], IsLocked)
      NotExotic(i) == ~i.isExotic
  IN IF Len(exotics) # 0 THEN exotics
     ELSE IF bucket \in DOMAIN a.pinnedItems THEN <<a.pinnedItems[bucket]>>
     ELSE IF a.lockedExoticHash = LOCKED_EXOTIC_NO_EXOTIC
            THEN SelectSeq(a.items[bucket], NotExotic)
     ELSE a.items[bucket]

\* The "no exotic" value is not looked at.
FirstPassNoSentinel(a, bucket) ==
  LET IsLocked(item) == item.hash = a.lockedExoticHash
      exotics == SelectSeq(a.items[bucket], IsLocked)
  IN IF bucket \in DOMAIN a.pinnedItems THEN <<a.pinnedItems[bucket]>>
     ELSE IF Len(exotics) # 0 THEN exotics
     ELSE a.items[bucket]

\* Only the first copy of the locked exotic is kept.
FirstPassOneCopy(a, bucket) ==
  LET IsLocked(item) == item.hash = a.lockedExoticHash
      exotics == SelectSeq(a.items[bucket], IsLocked)
      NotExotic(i) == ~i.isExotic
  IN IF bucket \in DOMAIN a.pinnedItems THEN <<a.pinnedItems[bucket]>>
     ELSE IF Len(exotics) # 0 THEN <<exotics[1]>>
     ELSE IF a.lockedExoticHash = LOCKED_EXOTIC_NO_EXOTIC
            THEN SelectSeq(a.items[bucket], NotExotic)
     ELSE a.items[bucket]

\* The pin, else the copies of the locked exotic, else the non-exotics when
\* no exotic is allowed, else every item of the bucket.
FirstPass(a, bucket) ==
  LET exotics == Exotics(a, bucket)
      NotExotic(i) == ~i.isExotic
  IN IF bucket \in DOMAIN a.pinnedItems THEN <<a.pinnedItems[bucket]>>
     ELSE IF Len(exotics) # 0 THEN exotics
     ELSE IF a.lockedExoticHash = LOCKED_EXOTIC_NO_EXOTIC
            THEN SelectSeq(a.items[bucket], NotExotic)
     ELSE a.items[bucket]

\* Excluded items are recognised by their hash.
IsExcludedByHash(a, bucket, item) ==
  /\ bucket \in DOMAIN a.excludedItems
  /\ \E excluded \in a.excludedItems[bucket] : item.hash = excluded.hash

\* excludedItems[bucket]?.some(excluded => item.id === excluded.id)
IsExcluded(a, bucket, item) ==
  /\ bucket \in DOMAIN a.excludedItems
  /\ \E excluded \in a.excludedItems[bucket] : item.id = excluded.id

\* The mod assignment is not asked.
TakesLockedModsUnasked(a, bucket, item) == TRUE

\* assignBucketSpecificMods({...}).unassigned.length === 0
TakesLockedMods(a, bucket, item) ==
  Len(assignBucketSpecificMods(a, item,
        LockedModsForPlugCategoryHash(a, bucket)).unassigned) = 0

\* firstPassFilteredItems.filter(not excluded && takes the locked mods)
ExcludedAndModsFiltered(a, bucket) ==
  LET Keep(item) == ~IsExcluded(a, bucket, item) /\ TakesLockedMods(a, bucket, item)
  IN SelectSeq(FirstPass(a, bucket), Keep)

\* The search runs on the first-pass candidates.
SearchFilteredFirstPass(a, bucket) ==
  LET Matches(item) == item \in a.searchFilter
  IN SelectSeq(FirstPass(a, bucket), Matches)

\* excludedAndModsFilteredItems.filter(searchFilter)
SearchFiltered(a, bucket) ==
  LET Matches(item) == item \in a.searchFilter
  IN SelectSeq(ExcludedAndModsFiltered(a, bucket), Matches)

\* The search result is taken even when it is empty.
BucketResultNoFallback(a, bucket) == SearchFiltered(a, bucket)

\* searchFilteredItems.length ? searchFilteredItems : excludedAndModsFilteredItems
BucketResult(a, bucket) ==
  IF Len(SearchFiltered(a, bucket)) # 0
    THEN SearchFiltered(a, bucket)
    ELSE ExcludedAndModsFiltered(a, bucket)

\* The loop over the buckets in the given order, from the mapping so far.
RECURSIVE FilterLoop(_, _, _)
FilterLoop(a, order, sofar) ==
  IF order = <<>> THEN sofar
  ELSE LET bucket == Head(order)
           next == IF HasBucket(a, bucket)
                     THEN [sofar EXCEPT ![bucket] = BucketResult(a, bucket)]
                     ELSE sofar
       IN FilterLoop(a, Tail(order), next)

\* The whole function, visiting the buckets in the given order.
filterItemsIn(a, order) ==
  IF Unavailable(a) THEN EmptyFilteredItems
  ELSE FilterLoop(a, order, EmptyFilteredItems)

----------------------------------------------------------------------------
\* The calls considered.

\* Sequences of distinct items, up to MaxLen long.
RECURSIVE ItemLists(_)
ItemLists(n) ==
  IF n = 0 THEN {<<>>}
  ELSE LET shorter == ItemLists(n - 1)
       IN shorter \cup
          {Append(s, i) : <<s, i>> \in
             {<<s, i>> \in shorter \X AllItems :
                /\ Len(s) = n - 1
                /\ \A k \in 1..Len(s) : s[k] # i}}

\* The search predicates drawn: everything, nothing, is:exotic, not:exotic.
SearchFilters ==
  {AllItems, {}, {i \in AllItems : i.isExotic}, {i \in AllItems : ~i.isExotic}}

ExoticLocks == {Undefined, LOCKED_EXOTIC_NO_EXOTIC, "X", "Y"}

\* At most one item on which no mod can be placed.
CannotTakes == {{}, {"x1"}, {"l1"}}

\* The exclusion lists drawn: one excluded item.
ExclusionLists == {{X2}, {L1}}

\* The pins drawn.
Pins == {X2, L1, Y1}

\* One bucket holds any item list, pin and exclusions; the others are empty.
InitOneBucket ==
  \E focus \in Buckets :
    /\ defs = TRUE
    /\ \E list \in ItemLists(MaxLen) :
         items = [b \in Buckets |-> IF b = focus THEN list ELSE <<>>]
    /\ \E pin \in {{}} \cup {{i} : i \in Pins} :
         pinnedItems = [b \in {c \in {focus} : pin # {}} |-> CHOOSE i \in pin : TRUE]
    /\ \E ex \in {"none"} \cup {"list"} \X ExclusionLists :
         excludedItems = IF ex = "none" THEN <<>>
                         ELSE [b \in {focus} |-> ex[2]]
    /\ lockedMods \in {<<>>, <<GeneralMod, ModFor(focus)>>}
    /\ lockedExoticHash \in ExoticLocks
    /\ searchFilter \in SearchFilters
    /\ cannotTake \in CannotTakes

\* Every bucket is either missing or holds the same two items; one pin and one
\* exclusion sit in any bucket, and the locked mods target several buckets.
InitManyBuckets ==
  /\ defs = TRUE
  /\ \E present \in SUBSET Buckets : items = [b \in present |-> <<X1, L1>>]
  /\ \E pinned \in {{}} \cup {{b} : b \in Buckets} :
       pinnedItems = [b \in pinned |-> X2]
  /\ \E excluded \in {{}} \cup {{b} : b \in Buckets} :
       excludedItems = [b \in excluded |-> {L1}]
  /\ lockedMods \in {<<>>,
                     <<ModFor("Helmet"), GeneralMod, ModFor("LegArmor")>>,
                     <<ModFor("Gauntlets"), ModFor("ClassArmor"), ModFor("ChestArmor")>>}
  /\ lockedExoticHash \in ExoticLocks
  /\ searchFilter \in SearchFilters
  /\ cannotTake \in {{}, {"x1"}}

\* The items or the manifest definitions are not loaded.
InitUnavailable ==
  /\ \E d \in BOOLEAN, it \in {NoItems, [b \in Buckets |-> <<X1, L1>>]} :
       /\ d = FALSE \/ it = NoItems
       /\ defs = d
       /\ items = it
  /\ \E pinned \in {{}} \cup {{b} : b \in Buckets} :
       pinnedItems = [b \in pinned |-> X1]
  /\ excludedItems = <<>>
  /\ lockedMods \in {<<>>, <<ModFor("Helmet")>>}
  /\ lockedExoticHash \in ExoticLocks
  /\ searchFilter \in SearchFilters
  /\ cannotTake = {}

\* Before the loop: the result mapping is built, no bucket is visited.
InitLocals ==
  /\ pc = "call"
  /\ filteredItems = EmptyFilteredItems
  /\ firstPassFilteredItems = <<>>
  /\ excludedAndModsFilteredItems = <<>>

Init == (InitOneBucket \/ InitManyBuckets \/ InitUnavailable) /\ InitLocals

InitManyOrUnavailable == (InitManyBuckets \/ InitUnavailable) /\ InitLocals

\* if (!items || !defs) return filteredItems
ReturnEmpty ==
  /\ pc = "call"
  /\ Unavailable(Args)
  /\ pc' = "return"
  /\ UNCHANGED <<inputs, filteredItems, firstPassFilteredItems,
                 excludedAndModsFilteredItems>>

\* The loop over the buckets, and the return.
FilterBuckets ==
  /\ pc = "call"
  /\ ~Unavailable(Args)
  /\ filteredItems' = FilterLoop(Args, LockableBucketHashes, filteredItems)
  /\ firstPassFilteredItems' =
       [b \in {c \in Buckets : HasBucket(Args, c)} |-> FirstPass(Args, b)]
  /\ excludedAndModsFilteredItems' =
       [b \in {c \in Buckets : HasBucket(Args, c)} |-> ExcludedAndModsFiltered(Args, b)]
  /\ pc' = "return"
  /\ UNCHANGED inputs

Next == ReturnEmpty \/ FilterBuckets

Spec == Init /\ [][Next]_vars

\* The calls in which several buckets hold items.
SpecManyBuckets == InitManyOrUnavailable /\ [][Next]_vars

----------------------------------------------------------------------------
\* What the properties below speak of.

Returned == pc = "return"

\* The loop body ran for the bucket.
Visited(b) == defs /\ items # NoItems /\ b \in DOMAIN items

\* The bucket's item list, empty when the bucket is missing.
CatalogOf(b) == IF items # NoItems /\ b \in DOMAIN items THEN items[b] ELSE <<>>

Elems(seq) == {seq[k] : k \in 1..Len(seq)}

\* The locked mods whose plug category is the bucket's.
SlotMods(b) ==
  LET Targets(mod) == mod.plug.plugCategoryHash = bucketHashToPlugCategoryHash[b]
  IN SelectSeq(lockedMods, Targets)

\* The mod assignment leaves a mod of the bucket unassigned on the item.
Infeasible(b, item) ==
  Len(assignBucketSpecificMods(Args, item, SlotMods(b)).unassigned) > 0

\* The item's id is in the bucket's exclusion list.
ExcludedIn(b, item) ==
  b \in DOMAIN excludedItems /\ \E e \in excludedItems[b] : e.id = item.id

Accepted(seq) ==
  LET Matches(item) == item \in searchFilter
  IN SelectSeq(seq, Matches)

\* s is t with some elements left out, the rest in t's order.
RECURSIVE IsSubsequence(_, _)
IsSubsequence(s, t) ==
  IF s = <<>> THEN TRUE
  ELSE IF t = <<>> THEN FALSE
  ELSE IF Head(s) = Head(t) THEN IsSubsequence(Tail(s), Tail(t))
  ELSE IsSubsequence(s, Tail(t))

Reverse(seq) == [k \in 1..Len(seq) |-> seq[Len(seq) + 1 - k]]

----------------------------------------------------------------------------
\* C1 as stated: a pinned item is the bucket's whole result whatever the
\* exclusions, the exotic lock, the mod assignment and the search say.
PinAbsolute ==
  Returned =>
    \A b \in DOMAIN pinnedItems :
      Visited(b) => filteredItems[b] = <<pinnedItems[b]>>

\* C1 amended: in a visited bucket with a pin P the result is <<P>> when P is
\* neither excluded nor left with an unassigned mod, and empty otherwise;
\* the item list, the exotic lock and the search predicate play no part.
PinDecidesBucket ==
  Returned =>
    \A b \in DOMAIN pinnedItems :
      Visited(b) =>
        filteredItems[b] =
          IF ExcludedIn(b, pinnedItems[b]) \/ Infeasible(b, pinnedItems[b])
            THEN <<>>
            ELSE <<pinnedItems[b]>>

\* A pinned exotic outside the bucket's list, rejected by the search and at
\* odds with the exotic lock, is the result.
PinDecidesBucketWitness ==
  /\ Returned
  /\ \E b \in DOMAIN pinnedItems :
       /\ Visited(b)
       /\ pinnedItems[b] \notin Elems(items[b])
       /\ pinnedItems[b] \notin searchFilter
       /\ pinnedItems[b].isExotic
       /\ lockedExoticHash = LOCKED_EXOTIC_NO_EXOTIC
       /\ Len(items[b]) > 0
       /\ filteredItems[b] = <<pinnedItems[b]>>

\* C2: no item of a bucket's result has a mod of that bucket left unassigned.
ModFeasibility ==
  Returned =>
    \A b \in Buckets :
      \A item \in Elems(filteredItems[b]) : ~Infeasible(b, item)

\* An item that passes everything but the mod assignment is left out.
ModFeasibilityWitness ==
  /\ Returned
  /\ \E b \in Buckets :
       /\ Visited(b)
       /\ \E item \in Elems(firstPassFilteredItems[b]) :
            /\ Infeasible(b, item)
            /\ ~ExcludedIn(b, item)
            /\ item \in searchFilter
            /\ item \notin Elems(filteredItems[b])
       /\ Len(filteredItems[b]) > 0

\* C3: when the search predicate rejects every item that survived exclusion
\* and mod assignment, the result is that list unchanged; so a result is
\* empty only when that list is.
SearchFallback ==
  Returned =>
    \A b \in DOMAIN excludedAndModsFilteredItems :
      LET step4 == excludedAndModsFilteredItems[b]
      IN /\ Accepted(step4) = <<>> => filteredItems[b] = step4
         /\ filteredItems[b] = <<>> => step4 = <<>>

\* Two surviving items, both rejected by the search, are the result.
SearchFallbackWitness ==
  /\ Returned
  /\ \E b \in DOMAIN excludedAndModsFilteredItems :
       /\ Len(excludedAndModsFilteredItems[b]) = 2
       /\ Accepted(excludedAndModsFilteredItems[b]) = <<>>
       /\ searchFilter # {}
       /\ filteredItems[b] = excludedAndModsFilteredItems[b]

\* C4: when the search predicate accepts some item that survived exclusion
\* and mod assignment, the result is exactly the accepted ones.
SearchNarrowing ==
  Returned =>
    \A b \in DOMAIN excludedAndModsFilteredItems :
      LET step4 == excludedAndModsFilteredItems[b]
      IN Accepted(step4) # <<>> => filteredItems[b] = Accepted(step4)

\* Of three surviving items only the middle one is accepted and returned.
SearchNarrowingWitness ==
  /\ Returned
  /\ \E b \in DOMAIN excludedAndModsFilteredItems :
       LET step4 == excludedAndModsFilteredItems[b]
       IN /\ Len(step4) = 3
          /\ step4[1] \notin searchFilter
          /\ step4[2] \in searchFilter
          /\ step4[3] \notin searchFilter
          /\ filteredItems[b] = <<step4[2]>>

\* The bucket's list holds an exotic and a non-exotic.
Mixed(b) ==
  /\ \E item \in Elems(items[b]) : item.isExotic
  /\ \E item \in Elems(items[b]) : ~item.isExotic

\* C5 as stated: with no exotic allowed, a bucket whose list is mixed has no
\* exotic among its first-pass candidates nor in its result.
NoExoticSentinel ==
  Returned =>
    \A b \in Buckets :
      (Visited(b) /\ lockedExoticHash = LOCKED_EXOTIC_NO_EXOTIC /\ Mixed(b)) =>
        /\ \A item \in Elems(firstPassFilteredItems[b]) : ~item.isExotic
        /\ \A item \in Elems(filteredItems[b]) : ~item.isExotic

\* C5 amended: the same for a bucket without a pinned item.
NoExoticSentinelUnpinned ==
  Returned =>
    \A b \in Buckets :
      (/\ Visited(b)
       /\ b \notin DOMAIN pinnedItems
       /\ lockedExoticHash = LOCKED_EXOTIC_NO_EXOTIC
       /\ Mixed(b)) =>
        /\ \A item \in Elems(firstPassFilteredItems[b]) : ~item.isExotic
        /\ \A item \in Elems(filteredItems[b]) : ~item.isExotic

\* Exotics are dropped from a mixed list and the non-exotic is returned.
NoExoticSentinelWitness ==
  /\ Returned
  /\ \E b \in Buckets :
       /\ Visited(b)
       /\ b \notin DOMAIN pinnedItems
       /\ lockedExoticHash = LOCKED_EXOTIC_NO_EXOTIC
       /\ Mixed(b)
       /\ Len(items[b]) = 3
       /\ firstPassFilteredItems[b] = <<L1>>
       /\ filteredItems[b] = <<L1>>

\* The items of the bucket's list with the locked exotic's hash.
Copies(b) == {item \in Elems(items[b]) : item.hash = lockedExoticHash}

Totality ==
  Returned =>
    /\ DOMAIN filteredItems =
         {"Helmet", "Gauntlets", "ChestArmor", "LegArmor", "ClassArmor"}
    /\ \A b \in DOMAIN filteredItems : filteredItems[b] \in Seq(AllItems)
    /\ (items = NoItems \/ ~defs) =>
         \A b \in DOMAIN filteredItems : filteredItems[b] = <<>>
    /\ items # NoItems =>
         \A b \in DOMAIN filteredItems \ DOMAIN items : filteredItems[b] = <<>>

\* Items and a pin are given but the definitions are not: all is empty.
TotalityWitness ==
  /\ Returned
  /\ ~defs
  /\ items # NoItems
  /\ \E b \in DOMAIN pinnedItems : Len(items[b]) > 0 /\ filteredItems[b] = <<>>

\* C8 as stated: every bucket's result is a subsequence of the bucket's list.
StableOrder ==
  Returned =>
    \A b \in Buckets : IsSubsequence(filteredItems[b], CatalogOf(b))

\* C8 amended: the result is a subsequence of the bucket's list for every
\* bucket whose pin, if any, is an item of that list.
StableOrderOfListed ==
  Returned =>
    \A b \in Buckets :
      (b \in DOMAIN pinnedItems => pinnedItems[b] \in Elems(CatalogOf(b))) =>
        IsSubsequence(filteredItems[b], CatalogOf(b))

\* The middle one of three items is filtered out; the outer two keep their order.
StableOrderWitness ==
  /\ Returned
  /\ \E b \in Buckets :
       /\ Visited(b)
       /\ b \notin DOMAIN pinnedItems
       /\ Len(items[b]) = 3
       /\ filteredItems[b] = <<items[b][1], items[b][3]>>

\* C9: in an unpinned bucket, a locked exotic with copies in the list leaves
\* exactly those copies as first-pass candidates; a lock other than "no
\* exotic" without a copy in the list leaves the whole list; in a pinned
\* bucket the candidates are the pin alone, whatever the lock.
Cascade ==
  Returned =>
    \A b \in Buckets :
      Visited(b) =>
        LET HasHash(item) == item.hash = lockedExoticHash
            firstPass == firstPassFilteredItems[b]
        IN /\ (b \notin DOMAIN pinnedItems /\ Copies(b) # {}) =>
                firstPass = SelectSeq(items[b], HasHash)
           /\ (/\ b \notin DOMAIN pinnedItems
               /\ Copies(b) = {}
               /\ lockedExoticHash # LOCKED_EXOTIC_NO_EXOTIC) =>
                firstPass = items[b]
           /\ b \in DOMAIN pinnedItems => firstPass = <<pinnedItems[b]>>

\* Both copies of the locked exotic are kept, the third item is not.
CascadeWitness ==
  /\ Returned
  /\ \E b \in Buckets :
       /\ Visited(b)
       /\ b \notin DOMAIN pinnedItems
       /\ Len(items[b]) = 3
       /\ Copies(b) = {X1, X2}
       /\ Len(firstPassFilteredItems[b]) = 2

\* The arguments with every bucket but b emptied of items, pin, exclusions
\* and mods.
OthersBlank(b) ==
  [Args EXCEPT
     !.items = IF items = NoItems THEN NoItems
               ELSE [c \in DOMAIN items \cap {b} |-> items[c]],
     !.pinnedItems = [c \in DOMAIN pinnedItems \cap {b} |-> pinnedItems[c]],
     !.excludedItems = [c \in DOMAIN excludedItems \cap {b} |-> excludedItems[c]],
     !.lockedMods = SlotMods(b)]

\* The arguments with every bucket but b given items, a pin, exclusions and
\* a mod of its own.
OthersFull(b) ==
  [Args EXCEPT
     !.items = IF items = NoItems THEN NoItems
               ELSE [c \in (Buckets \ {b}) \cup (DOMAIN items \cap {b}) |->
                       IF c = b THEN items[c] ELSE <<Y1, L1, X2, X1>>],
     !.pinnedItems = [c \in (Buckets \ {b}) \cup (DOMAIN pinnedItems \cap {b}) |->
                        IF c = b THEN pinnedItems[c] ELSE L1],
     !.excludedItems = [c \in (Buckets \ {b}) \cup (DOMAIN excludedItems \cap {b}) |->
                          IF c = b THEN excludedItems[c] ELSE AllItems],
     !.lockedMods =
        LET Add(c) == IF c = b THEN <<>> ELSE <<ModFor(c)>>
        IN Add("ClassArmor") \o Add("Helmet") \o SlotMods(b) \o <<GeneralMod>>
             \o Add("ChestArmor") \o Add("Gauntlets") \o Add("LegArmor")]

\* C10: a bucket's result is the same when the other buckets' items, pins,
\* exclusions and mods are taken away or replaced, and when the buckets are
\* visited in the opposite order.
SlotIndependence ==
  Returned =>
    \A b \in Buckets :
      /\ filteredItems[b] = filterItemsIn(OthersBlank(b), Reverse(LockableBucketHashes))[b]
      /\ filteredItems[b] = filterItemsIn(OthersFull(b), LockableBucketHashes)[b]

\* Three buckets hold items, one of them a pin and one an exclusion, mods
\* target two buckets, and the three results differ.
SlotIndependenceWitness ==
  /\ Returned
  /\ defs
  /\ items # NoItems
  /\ \E b1, b2, b3 \in DOMAIN items :
       /\ b1 \in DOMAIN pinnedItems
       /\ b2 \in DOMAIN excludedItems
       /\ SlotMods(b2) # <<>>
       /\ SlotMods(b3) = <<>>
       /\ lockedMods # <<>>
       /\ cannotTake # {}
       /\ filteredItems[b1] # filteredItems[b2]
       /\ filteredItems[b2] # filteredItems[b3]
       /\ filteredItems[b1] # filteredItems[b3]
       /\ filteredItems[b3] # <<>>

====
